---------------------------- MODULE Spec2Model ----------------------------
(***************************************************************************)
(* A model of the document decomposition and chunking pipeline of          *)
(* langchain-rag-flask: rag/utils.py (text normaliser, format loaders,     *)
(* dispatcher), rag/retriever.py (add_to_index) and app.py (api_upload).   *)
(*                                                                         *)
(* Strings are sequences of one-character strings.  Three specifications   *)
(* share the variables:                                                    *)
(*   SpecChunk   _chunk_text applied to bounded inputs                     *)
(*   Spec        concurrent calls of load_and_split_with_images            *)
(*   SpecUpload  one api_upload request over a batch of files              *)
(***************************************************************************)
EXTENDS Integers, Sequences, FiniteSets, TLC

VARIABLES
    \* ---- _chunk_text, as a function (SpecChunk) and step by step (SpecLoop)
    ctext,      \* the text argument
    csize,      \* the size argument
    coverlap,   \* the overlap argument
    cout,       \* the list returned
    cpc,        \* "call" before the call, "loop" in it, "done" after it
    ci,         \* the local index i of the loop of _chunk_text
    \* ---- calls of load_and_split_with_images (Spec, SpecUpload)
    layout,     \* the documents' structure: images per page / slide
    lpc,        \* per call: "idle", "page", "image", "done", "raised"
    lpath,      \* per call: the filepath argument
    lcond,      \* per call: "ok", or "bad": the file at filepath is unusable
    lkind,      \* per call: the loader the dispatcher selected
    results,    \* per call: the local list results
    figure_no,  \* per call: the local counter figure_no
    pos,        \* per call: 1-based page / slide number of the outer loop
    idx,        \* per call: 1-based index of the inner (image / shape) loop
    nparts,     \* per call: len(image_parts) of the DOCX loader
    attempts,   \* per call: log of the image extraction attempts (history)
    dirs,       \* the directories under uploads_root
    fs,         \* the files under uploads_root: relative path -> content
    \* ---- one api_upload request (SpecUpload)
    ufiles,     \* request.files.getlist("files")
    upos,       \* 1-based position of the loop over the files
    upc,        \* "idle", "loop", "responded", "rejected", "crashed"
    uresults,   \* the local list results of api_upload
    disk,       \* the saved uploads: path -> bytes
    collection, \* the entries of the Chroma collection
    uuid,       \* the number of ids drawn so far
    icalls      \* log of the calls of add_to_index (history)

chunkVars == <<ctext, csize, coverlap, cout, cpc, ci>>
loadVars == <<layout, lpc, lpath, lcond, lkind, results, figure_no, pos, idx,
              nparts, attempts, dirs, fs>>

uploadVars == <<ufiles, upos, upc, uresults, disk, collection, uuid, icalls>>

vars == <<chunkVars, loadVars, uploadVars>>

\* the concurrent calls of load_and_split_with_images
Calls == {1, 2}

\* no call has started, the uploads root is empty
LoadIdle ==
    /\ lpc = [c \in Calls |-> "idle"]
    /\ lpath = [c \in Calls |-> << >>]
    /\ lcond = [c \in Calls |-> "ok"]
    /\ lkind = [c \in Calls |-> "none"]
    /\ results = [c \in Calls |-> << >>]
    /\ figure_no = [c \in Calls |-> 0]
    /\ pos = [c \in Calls |-> 0]
    /\ idx = [c \in Calls |-> 0]
    /\ nparts = [c \in Calls |-> 0]
    /\ attempts = [c \in Calls |-> << >>]
    /\ dirs = {}
    /\ fs = << >>

\* no request has arrived, the collection is empty
UploadIdle ==
    /\ ufiles = << >> /\ upos = 0 /\ upc = "idle" /\ uresults = << >>
    /\ disk = << >> /\ collection = << >> /\ uuid = 0 /\ icalls = << >>

(***************************************************************************)
(* Bounds of the model.                                                    *)
(***************************************************************************)
MaxLen == 5     \* longest raw text handed to _chunk_text
MaxSize == 4    \* largest size / overlap argument handed to _chunk_text
MaxPages == 2   \* pages / slides / paragraphs of a document
MaxImages == 2  \* embedded images of a document, over all its pages
MaxBatch == 2   \* files of one upload request
MaxCalls == 3   \* calls of add_to_index in a row
NegArgs == 1    \* how far below zero the size / overlap of SpecLoop go

(***************************************************************************)
(* Program constants.                                                      *)
(***************************************************************************)
CHUNK_SIZE == 900
CHUNK_OVERLAP == 150

(***************************************************************************)
(* Characters and Python string primitives.                                *)
(***************************************************************************)
Whitespace == {" ", "\n"}
Letters == {"a", "b"}
Char == Letters \cup Whitespace

Max(a, b) == IF a >= b THEN a ELSE b
Min(a, b) == IF a <= b THEN a ELSE b

\* Python's s[i:j] for integers i, j (negative indices count from the end).
SliceIndex(n, len) ==
    IF n < 0 THEN Max(n + len, 0) ELSE Min(n, len)

Slice(s, i, j) ==
    LET lo == SliceIndex(i, Len(s))
        hi == SliceIndex(j, Len(s))
    IN  IF lo >= hi THEN << >> ELSE SubSeq(s, lo + 1, hi)

\* str.split() with no argument: the maximal runs of non-whitespace.
RECURSIVE SplitAcc(_, _, _, _)
SplitAcc(s, i, cur, acc) ==
    IF i > Len(s)
    THEN IF cur = << >> THEN acc ELSE Append(acc, cur)
    ELSE IF s[i] \in Whitespace
         THEN SplitAcc(s, i + 1, << >>,
                       IF cur = << >> THEN acc ELSE Append(acc, cur))
         ELSE SplitAcc(s, i + 1, Append(cur, s[i]), acc)

Split(s) == SplitAcc(s, 1, << >>, << >>)

\* sep.join(words)
RECURSIVE Join(_, _)
Join(sep, words) ==
    IF words = << >> THEN << >>
    ELSE IF Len(words) = 1 THEN words[1]
    ELSE words[1] \o sep \o Join(sep, Tail(words))

(***************************************************************************)
(* Text normaliser.                                                        *)
(***************************************************************************)
_norm_ws(s) == Join(<<" ">>, Split(s))

\* a faulty variant: the step is not kept positive
ChunkStepRaw(size, overlap) == size - overlap
\* a faulty variant: the step ignores the overlap
ChunkStepNoOverlap(size, overlap) == Max(size, 1)
\* step = max(size - overlap, 1)
ChunkStep(size, overlap) == Max(size - overlap, 1)

\* while i < len(text): chunks.append(text[i:i + size]); i += step
RECURSIVE ChunkLoop(_, _, _, _, _)
ChunkLoop(text, size, step, i, chunks) ==
    IF i < Len(text)
    THEN ChunkLoop(text, size, step, i + step,
                   Append(chunks, Slice(text, i, i + size)))
    ELSE chunks

_chunk_text(t, size, overlap) ==
    LET text == _norm_ws(t)
    IN  IF text = << >> THEN << >>
        ELSE ChunkLoop(text, size, ChunkStep(size, overlap), 0, << >>)

(***************************************************************************)
(* SpecChunk: _chunk_text on every text of at most MaxLen characters and   *)
(* every size and overlap in 0..MaxSize.                                   *)
(***************************************************************************)
RECURSIVE SeqsUpTo(_, _)
SeqsUpTo(S, n) ==
    IF n = 0 THEN {<< >>}
    ELSE LET shorter == SeqsUpTo(S, n - 1)
         IN  shorter \cup {Append(s, x) : s \in shorter, x \in S}

ChunkIdle ==
    /\ ctext = << >> /\ csize = 0 /\ coverlap = 0 /\ cout = << >>
    /\ cpc = "off" /\ ci = 0

InitChunk ==
    /\ ctext \in SeqsUpTo(Char, MaxLen)
    /\ csize \in 0..MaxSize
    /\ coverlap \in 0..MaxSize
    /\ cout = << >>
    /\ cpc = "call" /\ ci = 0
    /\ layout = << >>
    /\ LoadIdle
    /\ UploadIdle

ChunkCall ==
    /\ cpc = "call"
    /\ cout' = _chunk_text(ctext, csize, coverlap)
    /\ cpc' = "done"
    /\ UNCHANGED <<ctext, csize, coverlap, ci, loadVars, uploadVars>>

NextChunk == ChunkCall

SpecChunk == InitChunk /\ [][NextChunk]_vars

(***************************************************************************)
(* SpecLoop: _chunk_text run statement by statement, one action per        *)
(* iteration of its while loop, on any integer size and overlap.           *)
(***************************************************************************)
LoopChar == {"a", " "}

InitLoop ==
    /\ ctext \in SeqsUpTo(LoopChar, MaxLen)
    /\ csize \in (0 - NegArgs)..MaxSize
    /\ coverlap \in (0 - NegArgs)..MaxSize
    /\ cout = << >>
    /\ cpc = "call" /\ ci = 0
    /\ layout = << >>
    /\ LoadIdle
    /\ UploadIdle

\* text = _norm_ws(text); if not text: return []; chunks = []; i = 0
LoopEnter ==
    /\ cpc = "call"
    /\ cpc' = IF _norm_ws(ctext) = << >> THEN "done" ELSE "loop"
    /\ cout' = << >>
    /\ ci' = 0
    /\ UNCHANGED <<ctext, csize, coverlap, loadVars, uploadVars>>

\* while i < len(text): chunks.append(text[i:i + size]); i += step
LoopIter ==
    /\ cpc = "loop" /\ ci < Len(_norm_ws(ctext))
    /\ cout' = Append(cout, Slice(_norm_ws(ctext), ci, ci + csize))
    /\ ci' = ci + ChunkStep(csize, coverlap)
    /\ UNCHANGED <<ctext, csize, coverlap, cpc, loadVars, uploadVars>>

\* the loop condition fails: return chunks
LoopReturn ==
    /\ cpc = "loop" /\ ~(ci < Len(_norm_ws(ctext)))
    /\ cpc' = "done"
    /\ UNCHANGED <<ctext, csize, coverlap, cout, ci, loadVars, uploadVars>>

NextLoop ==
    \/ LoopEnter
    \/ LoopIter
    \/ LoopReturn

\* the call runs on its own thread of control: it keeps taking its next step
SpecLoop == InitLoop /\ [][NextLoop]_vars /\ WF_vars(NextLoop)

\* every iteration moves the start index forward by at least 1
LoopAdvances == (cpc = "loop" /\ ci' # ci) => ci' >= ci + 1

\* C16: _chunk_text terminates for every text and every integer size and
\* overlap, overlap >= size included: every iteration advances the start
\* index by at least 1, the chunks never outnumber the characters of the
\* normalised text, and the call returns (what the function computes).
C16_Terminates ==
    /\ <>(cpc = "done")
    /\ [][LoopAdvances]_vars
    /\ [](Len(cout) <= Len(_norm_ws(ctext)))
    /\ [](cpc = "done" => cout = _chunk_text(ctext, csize, coverlap))

\* C16 witness: a call with overlap >= size returned after at least three
\* iterations, one chunk per character of the normalised text.
C16_Witness ==
    /\ cpc = "done" /\ ci > 0
    /\ coverlap >= csize
    /\ Len(cout) >= 3
    /\ Len(cout) = Len(_norm_ws(ctext))

\* ceil(a / b) for a >= 0, b > 0
CeilDiv(a, b) == (a + b - 1) \div b

\* The arguments the chunking claims are about: 0 < O < S.
ChunkArgsOk == 0 < coverlap /\ coverlap < csize

\* C5: with 0 < O < S and normalised length L > 0, _chunk_text returns exactly
\* one chunk (the whole normalised text) when L <= S and exactly
\* ceil((L - S) / (S - O)) + 1 chunks when L > S, every chunk but the last
\* having length exactly S.
C5_ChunkCount ==
    (cpc = "done" /\ ChunkArgsOk /\ _norm_ws(ctext) # << >>) =>
        LET L == Len(_norm_ws(ctext))
        IN  /\ (L <= csize => cout = <<_norm_ws(ctext)>>)
            /\ (L > csize =>
                  Len(cout) = CeilDiv(L - csize, csize - coverlap) + 1)
            /\ \A k \in 1..(Len(cout) - 1) : Len(cout[k]) = csize

\* C6: with 0 < O < S and L > S, consecutive chunks i, i+1 where chunk i+1 is
\* not the final chunk share exactly O characters: the last O characters of
\* chunk i are the first O characters of chunk i+1.
LastN(s, n) == IF n >= Len(s) THEN s ELSE SubSeq(s, Len(s) - n + 1, Len(s))
FirstN(s, n) == IF n >= Len(s) THEN s ELSE SubSeq(s, 1, n)

C6_OverlapLaw ==
    (cpc = "done" /\ ChunkArgsOk /\ Len(_norm_ws(ctext)) > csize) =>
        \A k \in 1..(Len(cout) - 2) :
            /\ Len(LastN(cout[k], coverlap)) = coverlap
            /\ LastN(cout[k], coverlap) = FirstN(cout[k + 1], coverlap)

\* Reversing the overlap: the first chunk whole, every later chunk without its
\* first O characters (a chunk shorter than O contributes nothing).
RECURSIVE DropOverlaps(_, _)
DropOverlaps(chunks, o) ==
    IF chunks = << >> THEN << >>
    ELSE Slice(chunks[1], o, Len(chunks[1])) \o DropOverlaps(Tail(chunks), o)

Reconstruct(chunks, o) ==
    IF chunks = << >> THEN << >>
    ELSE chunks[1] \o DropOverlaps(Tail(chunks), o)

\* C7: with 0 < O < S, the first chunk followed by every later chunk without
\* its first O characters is exactly the whitespace-normalised input, and an
\* empty or whitespace-only input gives no chunk at all (for any S, O).
C7_Reconstruct ==
    cpc = "done" =>
        /\ (ChunkArgsOk => Reconstruct(cout, coverlap) = _norm_ws(ctext))
        /\ ((\A k \in 1..Len(ctext) : ctext[k] \in Whitespace) => cout = << >>)

\* C7 witness: a text whose normalisation changed it, cut into at least three
\* overlapping chunks.
C7_Witness ==
    /\ cpc = "done" /\ ChunkArgsOk
    /\ Len(cout) >= 3
    /\ _norm_ws(ctext) # ctext
    /\ Reconstruct(cout, coverlap) = _norm_ws(ctext)

(***************************************************************************)
(* Path and formatting primitives (os.path, str methods, f-strings).       *)
(***************************************************************************)
None == << >>          \* Optional values: None, or Some(x)
Some(x) == <<x>>

Digit == <<"0", "1", "2", "3", "4", "5", "6", "7", "8", "9">>
DigitChars == {Digit[k] : k \in 1..Len(Digit)}
LowerLetters == {"a", "b", "c", "d", "f", "m", "o", "p", "s", "t", "u", "x",
                 "y", "z"}
UpperLetters == {"C", "D", "F", "O", "P", "X"}

\* str(n) of an f-string, n >= 0
RECURSIVE Digits(_)
Digits(n) ==
    IF n < 10 THEN <<Digit[n + 1]>>
    ELSE Digits(n \div 10) \o <<Digit[(n % 10) + 1]>>

\* str.lower()
LowerChar(ch) ==
    CASE ch = "C" -> "c"
      [] ch = "D" -> "d"
      [] ch = "F" -> "f"
      [] ch = "O" -> "o"
      [] ch = "P" -> "p"
      [] ch = "X" -> "x"
      [] OTHER -> ch

Lower(s) == [k \in 1..Len(s) |-> LowerChar(s[k])]

\* str.isalnum() of one character
IsAlnum(ch) == ch \in LowerLetters \cup UpperLetters \cup DigitChars

\* the highest index of ch in s, 0 when absent
LastIndexOf(s, ch) ==
    LET hits == {k \in 1..Len(s) : s[k] = ch}
    IN  IF hits = {} THEN 0 ELSE CHOOSE k \in hits : \A j \in hits : j <= k

\* os.path.basename
basename(p) == SubSeq(p, LastIndexOf(p, "/") + 1, Len(p))

\* os.path.splitext: the extension starts at the last dot of the last
\* component, unless only dots precede it there.
SplitextAt(p) ==
    LET sep == LastIndexOf(p, "/")
        dot == LastIndexOf(p, ".")
    IN  IF dot > sep /\ \E k \in (sep + 1)..(dot - 1) : p[k] # "."
        THEN dot ELSE Len(p) + 1

splitext(p) ==
    <<SubSeq(p, 1, SplitextAt(p) - 1), SubSeq(p, SplitextAt(p), Len(p))>>

\* str.strip()
Strip(s) ==
    LET keep == {k \in 1..Len(s) : s[k] \notin Whitespace}
    IN  IF keep = {} THEN << >>
        ELSE SubSeq(s, CHOOSE k \in keep : \A j \in keep : k <= j,
                       CHOOSE k \in keep : \A j \in keep : j <= k)

\* str.splitlines(): the pieces between line breaks, no empty last piece
RECURSIVE SplitLinesAcc(_, _, _, _)
SplitLinesAcc(s, i, cur, acc) ==
    IF i > Len(s)
    THEN IF cur = << >> THEN acc ELSE Append(acc, cur)
    ELSE IF s[i] = "\n"
         THEN SplitLinesAcc(s, i + 1, << >>, Append(acc, cur))
         ELSE SplitLinesAcc(s, i + 1, Append(cur, s[i]), acc)

SplitLines(s) == SplitLinesAcc(s, 1, << >>, << >>)

\* [f(x) for x in seq if x]: the non-empty members, in order
NonEmpty(seq) == SelectSeq(seq, LAMBDA x : x # << >>)

\* str.replace(a, b) for one-character a, b
Replace(s, a, b) == [k \in 1..Len(s) |-> IF s[k] = a THEN b ELSE s[k]]

(***************************************************************************)
(* Helpers of rag/utils.py.                                                *)
(***************************************************************************)
_slug(s) ==
    [k \in 1..Len(s) |->
        IF IsAlnum(s[k]) \/ s[k] \in {"-", "_", "."} THEN s[k] ELSE "_"]

_text_meta_chunk(text, orig_filename, page) ==
    [content |-> text,
     meta |-> [type |-> "text", orig_filename |-> orig_filename,
               page |-> page]]

\* Python's `a or b` on optional strings: a when a is a non-empty string
PyOr(a, b) == IF a # None /\ a[1] # << >> THEN a ELSE b

\* a faulty variant: no "" at the end of the chain, an empty caption is None
CaptionOrNone(caption_full, caption_short) ==
    PyOr(caption_full, PyOr(Some(caption_short), None))
\* "caption": caption_full or caption_short or ""
CaptionOf(caption_full, caption_short) ==
    PyOr(caption_full, PyOr(Some(caption_short), Some(<< >>)))

DefaultCaption ==
    <<"I", "m", "a", "g", "e", " ", "f", "r", "o", "m", " ",
      "d", "o", "c", "u", "m", "e", "n", "t">>

_image_meta_chunk(caption_short, rel_image_path, orig_filename, page, fig, caption_full) ==
    [content |->
        <<"[", "F", "i", "g", "u", "r", "e", " ">> \o Digits(fig)
            \o <<"]", " ">>
            \o PyOr(Some(caption_short), Some(DefaultCaption))[1],
     meta |-> [type |-> "image",
               image_path |-> rel_image_path,
               orig_filename |-> orig_filename,
               page |-> page,
               figure_no |-> fig,
               caption |-> CaptionOf(caption_full, caption_short)]]

\* The name of the assets directory, relative to uploads_root.
AssetsDirName(filepath) ==
    _slug(splitext(basename(filepath))[1])
        \o <<"_", "a", "s", "s", "e", "t", "s">>

\* os.path.relpath(os.path.join(assets_dir, img_name), uploads_root)
\*     .replace("\\", "/")
RelPath(filepath, img_name) ==
    Replace(AssetsDirName(filepath) \o <<"/">> \o img_name, "\\", "/")

\* for chunk in _chunk_text(text): results.append(_text_meta_chunk(...))
TextChunks(text, filename, page) ==
    LET chunks == _chunk_text(text, CHUNK_SIZE, CHUNK_OVERLAP)
    IN  [k \in 1..Len(chunks) |-> _text_meta_chunk(chunks[k], filename, page)]

(***************************************************************************)
(* The documents.  All documents of one behaviour share a layout: page p   *)
(* (slide p, paragraph p) carries the text PageText(p) and layout[p]       *)
(* embedded images.  A PDF page lists its images; a DOCX package lists the *)
(* images of all pages as image parts; a PPTX slide holds one text shape   *)
(* followed by its picture shapes.                                         *)
(***************************************************************************)
RECURSIVE SumTo(_, _)
SumTo(f, n) == IF n = 0 THEN 0 ELSE f[n] + SumTo(f, n - 1)

Layouts == {l \in [1..MaxPages -> 0..MaxImages] : SumTo(l, MaxPages) <= MaxImages}

\* page.get_text("text") / p.text / shape.text of page, paragraph, slide p
PageText(p) ==
    IF p % 2 = 1 THEN <<" ", "\n">> ELSE <<"a", "\n", " ", "b">>

\* part.content_type of image part i
PartContentType(i) ==
    IF i % 2 = 1 THEN <<"i", "m", "a", "g", "e", "/", "j", "p", "e", "g">>
    ELSE <<"i", "m", "a", "g", "e", "/", "x", "-", "e", "m", "f">>

\* shape.image.filename of the picture at shape index s
PicFilename(s) ==
    IF s % 4 = 0 THEN <<"i", "m", "g">> ELSE <<"i", "m", "g", ".", "j", "p", "g">>

\* shape.alternative_text of the picture at shape index s
AltText(s) ==
    IF s % 2 = 1 THEN <<"x", " ", " ", "y">> ELSE << >>

\* the bytes of a plain file; BadByte is a byte that is not valid UTF-8
BadByte == "xFF"
PlainContents ==
    {<< >>, <<BadByte>>, <<"a", BadByte, "\n", " ", "b">>}

\* open(filepath, "r", encoding="utf-8", errors="ignore").read()
Decode(raw) == SelectSeq(raw, LAMBDA b : b # BadByte)

Paths ==
    {<<"u", "/", "d", ".", "p", "d", "f">>,
     <<"u", "/", "d", ".", "D", "O", "C", "X">>,
     <<"u", "/", "d", ".", "p", "p", "t", "x">>,
     <<"u", "/", "d", ".", "t", "x", "t">>,
     <<"u", "/", "d", ".", "x", "y", "z">>,
     <<"u", "/", "d">>}

\* How one image extraction attempt ends: it succeeds ("ok"); it raises before
\* anything is written, while decoding or converting ("fail_early"); or it
\* raises once the file has been created, during the write or after it while
\* the chunk is built ("fail_late": a file is left, possibly partial).
Outcomes == {"ok", "fail_early", "fail_late"}

(***************************************************************************)
(* Dispatcher.                                                             *)
(***************************************************************************)
\* a faulty variant: the extension is compared as written
ExtNoLower(filepath) == splitext(filepath)[2]
\* ext = os.path.splitext(filepath)[1].lower()
Ext(filepath) == Lower(splitext(filepath)[2])

Dispatch(filepath) ==
    LET ext == Ext(filepath)
    IN  IF ext = <<".", "p", "d", "f">> THEN "pdf"
        ELSE IF ext = <<".", "d", "o", "c", "x">> THEN "docx"
        ELSE IF ext = <<".", "p", "p", "t", "x">> THEN "pptx"
        ELSE "plain"

(***************************************************************************)
(* One image extraction attempt: the body of the try block.  A loader's    *)
(* steps between two attempts (page text, shapes that are no pictures, the *)
(* loop exits, the return) touch only the call's locals; they are part of  *)
(* the action that precedes them, as the record `adv`: the text chunks     *)
(* they append and the position they leave the loops in.                   *)
(***************************************************************************)
WriteFile(files, rel, img, out) ==
    IF out = "fail_early" THEN files
    ELSE (rel :> [img |-> img, data |-> IF out = "ok" THEN "image" ELSE "partial"])
         @@ files

\* a faulty variant: the chunk is appended although a later statement raised
ResultsAfterAlways(res, out, chunk) ==
    IF out \in {"ok", "fail_late"} THEN Append(res, chunk) ELSE res
\* results.append(_image_meta_chunk(...)) is reached only when nothing raised
ResultsAfter(res, out, chunk) ==
    IF out = "ok" THEN Append(res, chunk) ELSE res

\* a faulty variant: the counter advances for a failed attempt too
FigureNoAfterAlways(fig, out) == fig + 1
\* figure_no += 1 is the last statement of the try block
FigureNoAfter(fig, out) == IF out = "ok" THEN fig + 1 ELSE fig

\* a faulty variant: a failed attempt ends the call
AdvanceAfterAbort(out, adv) ==
    IF out = "ok" THEN adv ELSE [adv EXCEPT !.text = << >>, !.pc = "raised"]
\* except Exception: continue -- whatever the outcome, the loops go on
AdvanceAfter(out, adv) == adv

\* fitz.Pixmap(doc, xref) of image i of page p of a PDF: the colour space of
\* the decoded raster, whether it has an alpha channel, and pix.n, the number
\* of components per pixel, alpha included
Rasters ==
    <<[cs |-> "RGB", alpha |-> 0, n |-> 3],
      [cs |-> "CMYK", alpha |-> 0, n |-> 4],
      [cs |-> "CMYK", alpha |-> 1, n |-> 5],
      [cs |-> "RGB", alpha |-> 1, n |-> 4]>>
Pixmap(p, i) == Rasters[((2 * (p - 1) + (i - 1)) % Len(Rasters)) + 1]

\* if pix.n > 4: pix = fitz.Pixmap(fitz.csRGB, pix)
ToSave(pix) ==
    IF pix.n > 4 THEN [cs |-> "RGB", alpha |-> pix.alpha, n |-> 3 + pix.alpha]
    ELSE pix

\* pix.save(save_abs) with a .png name: PNG holds gray and RGB rasters only,
\* for any other colour space save raises before it writes
SaveAccepts(pix) == pix.cs \in {"GRAY", "RGB"}

\* how an attempt ends in the loader of `kind` when its environment (the
\* decoder, the file system) behaves as env
Outcome(kind, img, env) ==
    IF /\ kind = "pdf" /\ env # "fail_early"
       /\ ~SaveAccepts(ToSave(Pixmap(img[1], img[2])))
    THEN "fail_early"
    ELSE env

TryImage(c, img, rel, chunk, adv) ==
    \E env \in Outcomes, ch \in {chunk} :
      \E out \in {Outcome(lkind[c], img, env)} :
      \E a \in {AdvanceAfter(out, adv)} :
        /\ fs' = WriteFile(fs, ch.meta.image_path, <<lpath[c]>> \o img, out)
        /\ results' = [results EXCEPT
                         ![c] = ResultsAfter(@, out, ch) \o a.text]
        /\ figure_no' = [figure_no EXCEPT ![c] = FigureNoAfter(@, out)]
        /\ attempts' = [attempts EXCEPT
                           ![c] = Append(@, [img |-> img, out |-> out,
                                             env |-> env,
                                             path |-> ch.meta.image_path])]
        /\ pos' = [pos EXCEPT ![c] = a.pos]
        /\ idx' = [idx EXCEPT ![c] = a.idx]
        /\ lpc' = [lpc EXCEPT ![c] = a.pc]

\* the inner loop moves on to the next image of the same page
SamePage(c) == [text |-> << >>, pos |-> pos[c], idx |-> idx[c] + 1, pc |-> "image"]

(***************************************************************************)
(* _load_pdf_with_images                                                   *)
(***************************************************************************)
CaptionLines == 4
CaptionMax == 300

\* simple_caption: the first non-blank lines of the page, normalised, cut
SimpleCaption(page_text) ==
    LET lines == NonEmpty([k \in 1..Len(SplitLines(page_text)) |->
                              Strip(SplitLines(page_text)[k])])
    IN  Slice(_norm_ws(Join(<<" ">>, FirstN(lines, CaptionLines))), 0, CaptionMax)

\* f"{_slug(os.path.splitext(filename)[0])}_p{pidx+1}_{idx}.png"
PdfImgName(filename, pidx, i) ==
    _slug(splitext(filename)[1]) \o <<"_", "p">> \o Digits(pidx + 1)
        \o <<"_">> \o Digits(i) \o <<".", "p", "n", "g">>

\* for pidx in range(len(doc)), from page p on: the page's text chunks, then
\* its images; a page without images is passed (continue); past the last
\* page, doc.close() and return.
RECURSIVE PdfAdvance(_, _)
PdfAdvance(filename, p) ==
    IF p > Len(layout)
    THEN [text |-> << >>, pos |-> p, idx |-> 1, pc |-> "done", nparts |-> 0]
    ELSE LET t == TextChunks(PageText(p), filename, Some(p))
         IN  IF layout[p] = 0
             THEN [PdfAdvance(filename, p + 1) EXCEPT !.text = t \o @]
             ELSE [text |-> t, pos |-> p, idx |-> 1, pc |-> "image", nparts |-> 0]

PdfImage(c) ==
    /\ lpc[c] = "image" /\ lkind[c] = "pdf"
    /\ LET filename == basename(lpath[c])
           caption == SimpleCaption(PageText(pos[c]))
           rel == RelPath(lpath[c], PdfImgName(filename, pos[c] - 1, idx[c]))
       IN  TryImage(c, <<pos[c], idx[c]>>, rel,
                    _image_meta_chunk(caption, rel, filename, Some(pos[c]),
                                      figure_no[c], Some(caption)),
                    IF idx[c] < layout[pos[c]] THEN SamePage(c)
                    ELSE PdfAdvance(filename, pos[c] + 1))
    /\ UNCHANGED <<chunkVars, uploadVars, layout, lpath, lcond, lkind, nparts,
                 dirs>>

(***************************************************************************)
(* _load_docx_with_images                                                  *)
(***************************************************************************)
DocxCaptionParas == 6

\* `sub in s` for strings
Contains(s, sub) ==
    \E k \in 1..(Len(s) - Len(sub) + 1) : SubSeq(s, k, k + Len(sub) - 1) = sub

\* paragraphs = [p.text.strip() for p in doc.paragraphs if p.text and p.text.strip()]
Paragraphs == NonEmpty([p \in 1..Len(layout) |-> Strip(PageText(p))])

\* context_snippet = _norm_ws(" ".join(paragraphs[:6]))[:300]
ContextSnippet ==
    Slice(_norm_ws(Join(<<" ">>, FirstN(Paragraphs, DocxCaptionParas))), 0, CaptionMax)

\* the extension inferred from the declared content type
DocxExt(ct) ==
    IF Contains(ct, <<"j", "p", "e", "g">>) \/ Contains(ct, <<"j", "p", "g">>)
    THEN <<".", "j", "p", "g">>
    ELSE IF Contains(ct, <<"p", "n", "g">>) THEN <<".", "p", "n", "g">>
    ELSE IF Contains(ct, <<"g", "i", "f">>) THEN <<".", "g", "i", "f">>
    ELSE <<".", "p", "n", "g">>

\* f"{_slug(os.path.splitext(filename)[0])}_fig_{i}{ext}"
DocxImgName(filename, i, ext) ==
    _slug(splitext(filename)[1]) \o <<"_", "f", "i", "g", "_">> \o Digits(i) \o ext

\* The text chunks, then the discovery of the image parts: n parts, all the
\* images of the package when one of the two accessors yields them, none
\* when the library exposes neither; with no part the loader returns.
DocxStart(filename, n) ==
    [text |-> TextChunks(Join(<<"\n">>, Paragraphs), filename, None),
     pos |-> 0, idx |-> 1, pc |-> IF n = 0 THEN "done" ELSE "image",
     nparts |-> n]

DocxImage(c) ==
    /\ lpc[c] = "image" /\ lkind[c] = "docx"
    /\ LET filename == basename(lpath[c])
           ext == DocxExt(PartContentType(idx[c]))
           rel == RelPath(lpath[c], DocxImgName(filename, idx[c], ext))
       IN  TryImage(c, <<0, idx[c]>>, rel,
                    _image_meta_chunk(ContextSnippet, rel, filename, None,
                                      figure_no[c], Some(ContextSnippet)),
                    [text |-> << >>, pos |-> 0, idx |-> idx[c] + 1,
                     pc |-> IF idx[c] < nparts[c] THEN "image" ELSE "done"])
    /\ UNCHANGED <<chunkVars, uploadVars, layout, lpath, lcond, lkind, nparts,
                 dirs>>

(***************************************************************************)
(* _load_pptx_with_images                                                  *)
(***************************************************************************)
\* slide.shapes of slide p: the text shape, then the slide's pictures
NumShapes(p) == 1 + layout[p]
\* shape.shape_type == MSO_SHAPE_TYPE.PICTURE, for the shape at index s
IsPicture(s) == s > 1
\* the pictures of slide p after shape index s
PicturesAfter(p, s) == {k \in (s + 1)..NumShapes(p) : IsPicture(k)}
MinOf(S) == CHOOSE k \in S : \A j \in S : k <= j

\* slide_text = "\n".join(slide_texts)
SlideText(p) == Join(<<"\n">>, NonEmpty(<<Strip(PageText(p))>>))

\* ext = os.path.splitext(img.filename)[1] or ".png"
PptxExt(s) ==
    PyOr(Some(splitext(PicFilename(s))[2]), Some(<<".", "p", "n", "g">>))[1]

\* f"{_slug(os.path.splitext(filename)[0])}_s{sidx}_{figure_no}{ext}"
PptxImgName(filename, sidx, fig, ext) ==
    _slug(splitext(filename)[1]) \o <<"_", "s">> \o Digits(sidx)
        \o <<"_">> \o Digits(fig) \o ext

\* a faulty variant: the alt text is never used
PptxCaptionSlideOnly(p, s) == Slice(_norm_ws(SlideText(p)), 0, CaptionMax)
\* caption = _norm_ws(alt) or caption_ctx
PptxCaption(p, s) ==
    PyOr(Some(_norm_ws(Strip(AltText(s)))),
         Some(Slice(_norm_ws(SlideText(p)), 0, CaptionMax)))[1]

\* for sidx, slide in enumerate(prs.slides, start=1), from slide p on: the
\* slide's text chunks, then its shapes up to the first picture; a slide
\* without pictures is passed; past the last slide, return.
RECURSIVE PptxAdvance(_, _)
PptxAdvance(filename, p) ==
    IF p > Len(layout)
    THEN [text |-> << >>, pos |-> p, idx |-> 1, pc |-> "done", nparts |-> 0]
    ELSE LET t == TextChunks(SlideText(p), filename, Some(p))
         IN  IF PicturesAfter(p, 0) = {}
             THEN [PptxAdvance(filename, p + 1) EXCEPT !.text = t \o @]
             ELSE [text |-> t, pos |-> p, idx |-> MinOf(PicturesAfter(p, 0)),
                   pc |-> "image", nparts |-> 0]

PptxPicture(c) ==
    /\ lpc[c] = "image" /\ lkind[c] = "pptx"
    /\ LET filename == basename(lpath[c])
           caption == PptxCaption(pos[c], idx[c])
           rel == RelPath(lpath[c],
                          PptxImgName(filename, pos[c], figure_no[c],
                                      PptxExt(idx[c])))
       IN  TryImage(c, <<pos[c], idx[c]>>, rel,
                    _image_meta_chunk(caption, rel, filename, Some(pos[c]),
                                      figure_no[c], Some(caption)),
                    IF PicturesAfter(pos[c], idx[c]) # {}
                    THEN [text |-> << >>, pos |-> pos[c],
                          idx |-> MinOf(PicturesAfter(pos[c], idx[c])),
                          pc |-> "image"]
                    ELSE PptxAdvance(filename, pos[c] + 1))
    /\ UNCHANGED <<chunkVars, uploadVars, layout, lpath, lcond, lkind, nparts,
                 dirs>>

(***************************************************************************)
(* _load_plain: the file read (or not: open raised), decoded, chunked.     *)
(***************************************************************************)
_load_plain(filepath, readable, raw) ==
    [text |-> TextChunks(IF readable THEN Decode(raw) ELSE << >>,
                         basename(filepath), None),
     pos |-> 0, idx |-> 0, pc |-> "done", nparts |-> 0]

(***************************************************************************)
(* load_and_split_with_images: dispatch on the extension, open the         *)
(* document, create the assets directory, and run the selected loader up   *)
(* to its first image attempt.  cond = "bad": the file is not a valid      *)
(* instance of its claimed format (fitz.open, Document, Presentation       *)
(* raise); for a plain file, it cannot be opened (_load_plain reads "").   *)
(***************************************************************************)
NumImages == SumTo(layout, Len(layout))

\* What the selected loader does up to its first image attempt, for every
\* way its reads can turn out.
Starts(filepath, cond) ==
    CASE Dispatch(filepath) = "pdf" -> {PdfAdvance(basename(filepath), 1)}
      [] Dispatch(filepath) = "docx" ->
            {DocxStart(basename(filepath), n) : n \in {0, NumImages}}
      [] Dispatch(filepath) = "pptx" -> {PptxAdvance(basename(filepath), 1)}
      [] OTHER -> {_load_plain(filepath, cond = "ok", raw) : raw \in PlainContents}

CallWith(c, filepath, cond) ==
    /\ lpc[c] = "idle"
    /\ lpath' = [lpath EXCEPT ![c] = filepath]
    /\ lcond' = [lcond EXCEPT ![c] = cond]
    /\ lkind' = [lkind EXCEPT ![c] = Dispatch(filepath)]
    /\ IF Dispatch(filepath) # "plain" /\ cond = "bad"
       THEN /\ lpc' = [lpc EXCEPT ![c] = "raised"]
            /\ UNCHANGED <<results, figure_no, pos, idx, nparts, dirs>>
       ELSE /\ \E st \in Starts(filepath, cond) :
                 /\ results' = [results EXCEPT ![c] = st.text]
                 /\ pos' = [pos EXCEPT ![c] = st.pos]
                 /\ idx' = [idx EXCEPT ![c] = st.idx]
                 /\ lpc' = [lpc EXCEPT ![c] = st.pc]
                 /\ nparts' = [nparts EXCEPT ![c] = st.nparts]
            /\ figure_no' = [figure_no EXCEPT ![c] = 1]
            /\ dirs' = IF Dispatch(filepath) = "plain" THEN dirs
                       ELSE dirs \cup {AssetsDirName(filepath)}
    /\ UNCHANGED <<layout, attempts, fs>>

CallIn(c, paths) ==
    /\ \E filepath \in paths, cond \in {"ok", "bad"} : CallWith(c, filepath, cond)
    /\ UNCHANGED <<chunkVars, uploadVars>>

Call(c) == CallIn(c, Paths)

(***************************************************************************)
(* Spec: the calls of Calls run load_and_split_with_images concurrently,   *)
(* one after the other or interleaved, over one uploads root.              *)
(***************************************************************************)
Init ==
    /\ ChunkIdle
    /\ layout \in Layouts
    /\ LoadIdle
    /\ UploadIdle

\* The calls are interchangeable: call 1 is the one that starts first.
MayStart(c) == c = 1 \/ lpc[1] # "idle"

Next ==
    \E c \in Calls :
        \/ MayStart(c) /\ Call(c)
        \/ PdfImage(c)
        \/ DocxImage(c)
        \/ PptxPicture(c)

Spec == Init /\ [][Next]_vars

(***************************************************************************)
(* SpecPair: the calls run over two different files of the uploads root    *)
(* whose names differ in the case of the extension only.                   *)
(***************************************************************************)
PairPaths ==
    {<<"u", "/", "d", ".", "p", "d", "f">>,
     <<"u", "/", "d", ".", "P", "D", "F">>}

NextPair ==
    \E c \in Calls :
        \/ MayStart(c) /\ CallIn(c, PairPaths)
        \/ PdfImage(c)

SpecPair == Init /\ [][NextPair]_vars

(***************************************************************************)
(* rag/retriever.py: add_to_index over the persistent collection.          *)
(***************************************************************************)
\* hashlib.sha256 over the bytes of the saved file; two files have the same
\* digest exactly when they have the same bytes
compute_file_hash(files, filepath) == <<"sha256", files[filepath]>>

\* collection.get(where={key: value}).get("ids")
IdsWhere(coll, key, value) ==
    {coll[k].id : k \in {j \in 1..Len(coll) : coll[j].metadata[key] = value}}

\* collection.delete(ids=...)
DeleteIds(coll, ids) == SelectSeq(coll, LAMBDA e : e.id \notin ids)

\* m = dict(m); m.update({"file_hash": file_hash, "orig_filename": filename})
NewMeta(m, file_hash, filename) ==
    [file_hash |-> file_hash, orig_filename |-> filename] @@ m

\* collection.add(documents, embeddings, metadatas, ids), ids fresh
AddChunks(coll, chunks, file_hash, filename, n) ==
    coll \o [k \in 1..Len(chunks) |->
                [id |-> n + k, document |-> chunks[k].content,
                 metadata |-> NewMeta(chunks[k].meta, file_hash, filename)]]

\* add_to_index(chunks, embeddings_model, filepath) with a filepath given:
\* the status returned, the collection and the number of ids drawn after it
add_to_index(coll, n, chunks, files, filepath) ==
    LET filename == basename(filepath)
        file_hash == compute_file_hash(files, filepath)
        old == IdsWhere(coll, "orig_filename", filename)
        status == IF old # {} THEN "updated" ELSE "indexed"
        kept == DeleteIds(coll, old)
    IN  IF IdsWhere(coll, "file_hash", file_hash) # {}
        THEN [status |-> "skipped", collection |-> coll, uuid |-> n]
        ELSE IF chunks = << >>
        THEN [status |-> status, collection |-> kept, uuid |-> n]
        ELSE [status |-> status,
              collection |-> AddChunks(kept, chunks, file_hash, filename, n),
              uuid |-> n + Len(chunks)]

(***************************************************************************)
(* app.py: api_upload.                                                     *)
(***************************************************************************)
\* the file names a client sends, and the bytes of a file: two valid
\* documents and one that is no valid instance of any document format
UploadNames == {<<"d", ".", "p", "d", "f">>, <<"s", "/", "d", ".", "t", "x", "t">>}
Contents == {"v1", "v2", "bad"}
UploadItems == [filename : UploadNames, content : Contents]
Batches == SeqsUpTo(UploadItems, MaxBatch)

\* werkzeug's secure_filename: path separators become spaces, the words are
\* joined by "_", every character outside [A-Za-z0-9_.-] is dropped and
\* leading and trailing dots and underscores are stripped
AllowedChar(ch) == IsAlnum(ch) \/ ch \in {"_", ".", "-"}
StripChars(s, set) ==
    LET keep == {k \in 1..Len(s) : s[k] \notin set}
    IN  IF keep = {} THEN << >>
        ELSE SubSeq(s, CHOOSE k \in keep : \A j \in keep : k <= j,
                       CHOOSE k \in keep : \A j \in keep : j <= k)
secure_filename(filename) ==
    StripChars(SelectSeq(Join(<<"_">>, Split(Replace(filename, "/", " "))),
                         AllowedChar),
               {".", "_"})

\* os.path.join(app.config["UPLOAD_FOLDER"], fname)
UploadPath(fname) == <<"u", "/">> \o fname

\* whether the document libraries can open a file of these bytes
CondOf(content) == IF content = "bad" THEN "bad" ELSE "ok"

\* if "files" not in request.files: return ..., 400
UploadNoFiles ==
    /\ upc = "idle"
    /\ upc' = "rejected"
    /\ UNCHANGED <<ufiles, upos, uresults, disk, collection, uuid, icalls>>
    /\ UNCHANGED <<chunkVars, loadVars>>

\* files = request.files.getlist("files"); results = []
UploadBegin ==
    /\ upc = "idle"
    /\ \E batch \in Batches : ufiles' = batch
    /\ upos' = 1
    /\ uresults' = << >>
    /\ upc' = "loop"
    /\ UNCHANGED <<disk, collection, uuid, icalls>>
    /\ UNCHANGED <<chunkVars, loadVars>>

\* f.save(path); chunks = load_and_split_with_images(path), up to the first
\* image attempt of the loader
UploadFile ==
    /\ upc = "loop" /\ upos <= Len(ufiles)
    /\ \E path \in {UploadPath(secure_filename(ufiles[upos].filename))} :
          /\ disk' = (path :> ufiles[upos].content) @@ disk
          /\ CallWith(1, path, CondOf(ufiles[upos].content))
    /\ UNCHANGED <<ufiles, upos, upc, uresults, collection, uuid, icalls>>
    /\ UNCHANGED chunkVars

\* the call's locals are gone once it has returned or raised
Forget(f, init) == [f EXCEPT ![1] = init]

\* one call of add_to_index as the log keeps it: its arguments, the digest
\* of the file, the status returned and the collection before and after
Logged(filepath, chunks, files, before, r) ==
    [filepath |-> filepath, chunks |-> chunks,
     file_hash |-> compute_file_hash(files, filepath),
     status |-> r.status, before |-> before, after |-> r.collection]

\* status = add_to_index(chunks, embeddings_model, filepath=path);
\* results.append({...}); the loop moves to the next file
UploadIndex ==
    /\ upc = "loop" /\ lpc[1] = "done"
    /\ \E r \in {add_to_index(collection, uuid, results[1], disk, lpath[1])} :
          /\ collection' = r.collection
          /\ uuid' = r.uuid
          /\ icalls' = Append(icalls, Logged(lpath[1], results[1], disk,
                                             collection, r))
          /\ uresults' = Append(uresults,
                                [file |-> basename(lpath[1]),
                                 chunks |-> Len(results[1]),
                                 status |-> r.status])
    /\ upos' = upos + 1
    /\ lpc' = Forget(lpc, "idle")
    /\ results' = Forget(results, << >>)
    /\ attempts' = Forget(attempts, << >>)
    /\ figure_no' = Forget(figure_no, 0)
    /\ pos' = Forget(pos, 0)
    /\ idx' = Forget(idx, 0)
    /\ nparts' = Forget(nparts, 0)
    /\ UNCHANGED <<ufiles, upc, disk, layout, lpath, lcond, lkind, dirs, fs>>
    /\ UNCHANGED chunkVars

\* load_and_split_with_images raised: nothing in api_upload catches it, the
\* request ends with the framework's error response
UploadRaise ==
    /\ upc = "loop" /\ lpc[1] = "raised"
    /\ upc' = "crashed"
    /\ UNCHANGED <<ufiles, upos, uresults, disk, collection, uuid, icalls>>
    /\ UNCHANGED <<chunkVars, loadVars>>

\* return jsonify({"status": "ok", "results": results})
UploadRespond ==
    /\ upc = "loop" /\ upos > Len(ufiles) /\ lpc[1] = "idle"
    /\ upc' = "responded"
    /\ UNCHANGED <<ufiles, upos, uresults, disk, collection, uuid, icalls>>
    /\ UNCHANGED <<chunkVars, loadVars>>

NextUpload ==
    \/ UploadNoFiles
    \/ UploadBegin
    \/ UploadFile
    \/ PdfImage(1)
    \/ UploadIndex
    \/ UploadRaise
    \/ UploadRespond

SpecUpload == Init /\ [][NextUpload]_vars

(***************************************************************************)
(* SpecIndex: add_to_index called again and again, each time on a file     *)
(* just saved under one of the upload paths, with a chunk list a loader    *)
(* can return for it.                                                      *)
(***************************************************************************)
IndexPaths == {UploadPath(secure_filename(name)) : name \in UploadNames}
IndexChunks(filepath) ==
    {TextChunks(text, basename(filepath), None) :
        text \in {<< >>, <<"a">>, <<"b">>}}

InitIndex ==
    /\ ChunkIdle
    /\ layout = << >>
    /\ LoadIdle
    /\ UploadIdle

IndexCall ==
    /\ Len(icalls) < MaxCalls
    /\ \E filepath \in IndexPaths, content \in Contents :
       \* the loader returned: it did not raise on the file
       /\ Dispatch(filepath) = "plain" \/ CondOf(content) = "ok"
       /\ \E chunks \in IndexChunks(filepath) :
          \E files \in {(filepath :> content) @@ disk} :
          \E r \in {add_to_index(collection, uuid, chunks, files, filepath)} :
             /\ disk' = files
             /\ collection' = r.collection
             /\ uuid' = r.uuid
             /\ icalls' = Append(icalls, Logged(filepath, chunks, files,
                                                collection, r))
    /\ UNCHANGED <<ufiles, upos, upc, uresults>>
    /\ UNCHANGED <<chunkVars, loadVars>>

NextIndex == IndexCall

SpecIndex == InitIndex /\ [][NextIndex]_vars

(***************************************************************************)
(* Properties of add_to_index (SpecIndex).                                 *)
(***************************************************************************)
\* C13: a call of add_to_index that follows, with the same file and the same
\* content, a call that returned "indexed" or "updated" returns "skipped" and
\* leaves the collection as it was.
C13_ReuploadSkipped ==
    \A k \in 1..(Len(icalls) - 1) :
        (/\ icalls[k].status \in {"indexed", "updated"}
         /\ icalls[k + 1].filepath = icalls[k].filepath
         /\ icalls[k + 1].file_hash = icalls[k].file_hash) =>
            /\ icalls[k + 1].status = "skipped"
            /\ icalls[k + 1].after = icalls[k + 1].before

\* the entries of a collection indexed under a file name
EntriesOf(coll, filename) ==
    {coll[k] : k \in {j \in 1..Len(coll) : coll[j].metadata.orig_filename = filename}}

\* the last call of the log made for a file name
LastCallFor(filename) ==
    LET ks == {k \in 1..Len(icalls) : basename(icalls[k].filepath) = filename}
    IN  icalls[CHOOSE k \in ks : \A j \in ks : j <= k]

\* C14: a call of add_to_index for a file name that has chunks in the index,
\* all of another content hash, returns "updated", deletes every old chunk of
\* that name and adds the new chunks; hence the chunks indexed under a file
\* name always carry the hash of the version last passed to add_to_index.
C14_UpdateReplaces ==
    /\ \A k \in 1..Len(icalls) :
          LET call == icalls[k]
              filename == basename(call.filepath)
              old == EntriesOf(call.before, filename)
          IN  (/\ old # {}
               /\ \A e \in old : e.metadata.file_hash # call.file_hash) =>
                  /\ call.status = "updated"
                  /\ EntriesOf(call.after, filename) \cap old = {}
                  /\ {e.document : e \in EntriesOf(call.after, filename)}
                        = {call.chunks[j].content : j \in 1..Len(call.chunks)}
    /\ \A k \in 1..Len(collection) :
          collection[k].metadata.file_hash
              = LastCallFor(collection[k].metadata.orig_filename).file_hash

(***************************************************************************)
(* Properties of api_upload (SpecUpload).                                  *)
(***************************************************************************)
ParseFails(item) ==
    /\ Dispatch(UploadPath(secure_filename(item.filename))) # "plain"
    /\ item.content = "bad"

\* C3: when one file of a batch of several fails to parse, the request still ends with
\* the response, every file of the batch has been saved, extracted and
\* indexed or reported, and the response carries one status per file, the
\* failed one included.
C3_BatchSurvivesParseFailure ==
    (/\ upc \in {"responded", "crashed"}
     /\ Len(ufiles) > 1
     /\ \E k \in 1..Len(ufiles) : ParseFails(ufiles[k])) =>
        /\ upc = "responded"
        /\ Len(uresults) = Len(ufiles)
        /\ \A k \in 1..Len(ufiles) :
              /\ UploadPath(secure_filename(ufiles[k].filename)) \in DOMAIN disk
              /\ uresults[k].file = secure_filename(ufiles[k].filename)

(***************************************************************************)
(* Properties of the loaders (Spec).                                       *)
(***************************************************************************)
ImageChunks(res) == SelectSeq(res, LAMBDA ch : ch.meta.type = "image")
TextOnly(res) == SelectSeq(res, LAMBDA ch : ch.meta.type = "text")
OkAttempts(c) == SelectSeq(attempts[c], LAMBDA a : a.out = "ok")
IsPrefix(s, t) == Len(s) <= Len(t) /\ SubSeq(t, 1, Len(s)) = s

\* C1: in every call, also one interleaved with another call, the figure_no
\* values of the image chunks are 1, 2, ..., N in emission order, N being the
\* number of images saved successfully so far, whatever attempts failed.
C1_FigureNumbers ==
    \A c \in Calls :
        LET ic == ImageChunks(results[c])
        IN  /\ Len(ic) = Len(OkAttempts(c))
            /\ \A k \in 1..Len(ic) : ic[k].meta.figure_no = k

\* C1 witness: a call returned one image, numbered 1, after the attempt
\* on an earlier image had failed, while the other call, in the middle of
\* its own run, has emitted its own figure 1.
C1_Witness ==
    \E c, d \in Calls :
        /\ c # d
        /\ lpc[c] = "done" /\ Len(attempts[c]) = 2
        /\ attempts[c][1].out # "ok" /\ attempts[c][2].out = "ok"
        /\ ImageChunks(results[c])[1].meta.figure_no = 1
        /\ lpc[d] = "image" /\ Len(OkAttempts(d)) = 1

\* C2: every image chunk of a call stands for an attempt of that call whose
\* write completed; its image_path names an existing file, and no later
\* attempt of the same call wrote to that path.
C2_ChunkAfterWrite ==
    \A c \in Calls :
        LET ic == ImageChunks(results[c])
            written == {k \in 1..Len(attempts[c]) : attempts[c][k].out # "fail_early"}
        IN  /\ Len(ic) <= Len(attempts[c])
            /\ \A k \in 1..Len(ic) :
                  /\ ic[k].meta.image_path \in DOMAIN fs
                  /\ \E j \in written :
                        /\ attempts[c][j].out = "ok"
                        /\ attempts[c][j].path = ic[k].meta.image_path
                        /\ \A i \in written :
                              i > j => attempts[c][i].path # ic[k].meta.image_path
            /\ Cardinality({ic[k].meta.image_path : k \in 1..Len(ic)})
                  = Cardinality({j \in written : attempts[c][j].out = "ok"})

\* C2 witness: a PPTX call returned after an attempt that left a file behind
\* without a chunk and a later successful attempt on the same slide that
\* wrote to the same file name; the one chunk returned names that file.
C2_Witness ==
    \E c \in Calls :
        /\ lpc[c] = "done" /\ lkind[c] = "pptx" /\ Len(attempts[c]) = 2
        /\ attempts[c][1].out = "fail_late" /\ attempts[c][2].out = "ok"
        /\ attempts[c][1].path = attempts[c][2].path
        /\ Len(ImageChunks(results[c])) = 1
        /\ fs[ImageChunks(results[c])[1].meta.image_path].data = "image"

\* The text chunks a loader is to emit for the whole document.
RECURSIVE PagesText(_, _, _)
PagesText(kind, filename, p) ==
    IF p > Len(layout) THEN << >>
    ELSE TextChunks(IF kind = "pdf" THEN PageText(p) ELSE SlideText(p),
                    filename, Some(p))
         \o PagesText(kind, filename, p + 1)

ExpectedText(c) ==
    IF lkind[c] = "docx"
    THEN TextChunks(Join(<<"\n">>, Paragraphs), basename(lpath[c]), None)
    ELSE PagesText(lkind[c], basename(lpath[c]), 1)

ExpectedAttempts(c) == IF lkind[c] = "docx" THEN nparts[c] ELSE NumImages

\* C4, the state part: a call that has attempted an image never ends raised,
\* and once it has returned it has attempted every image of the document and
\* emitted the text chunks of every page or slide.
C4_AllProcessed ==
    \A c \in Calls :
        /\ (lpc[c] = "raised" => attempts[c] = << >>)
        /\ (lpc[c] = "done" /\ lkind[c] \in {"pdf", "docx", "pptx"}) =>
              /\ Len(attempts[c]) = ExpectedAttempts(c)
              /\ TextOnly(results[c]) = ExpectedText(c)

\* C4, the step part: a step in which an attempt of call c fails leaves
\* figure_no and the image chunks of c as they were, keeps every chunk
\* already emitted, and does not end the call raised.
C4_FailedAttemptFrame ==
    \A c \in Calls :
        (/\ Len(attempts'[c]) = Len(attempts[c]) + 1
         /\ attempts'[c][Len(attempts'[c])].out # "ok") =>
            /\ figure_no'[c] = figure_no[c]
            /\ IsPrefix(results[c], results'[c])
            /\ ImageChunks(results'[c]) = ImageChunks(results[c])
            /\ lpc'[c] # "raised"

\* C4: a failure at any step of one image's extraction never leaves the
\* loader: chunks already emitted and the figure counter are unchanged by the
\* failed attempt, and every later image and page text is still processed.
C4_FailureIsolated == [][C4_FailedAttemptFrame]_vars /\ []C4_AllProcessed

\* C4 witness: a PDF call returned the text chunk of page 2 after the attempt
\* on the image of page 1 had failed.
C4_Witness ==
    \E c \in Calls :
        /\ lpc[c] = "done" /\ lkind[c] = "pdf" /\ layout[1] > 0
        /\ attempts[c] # << >> /\ attempts[c][1].out = "fail_late"
        /\ attempts[c][1].img[1] = 1
        /\ results[c] # << >>
        /\ results[c][Len(results[c])].meta.type = "text"
        /\ results[c][Len(results[c])].meta.page = Some(2)

\* The loader each path of Paths is to be routed to.
ExpectedLoader(filepath) ==
    CASE filepath = <<"u", "/", "d", ".", "p", "d", "f">> -> "pdf"
      [] filepath = <<"u", "/", "d", ".", "D", "O", "C", "X">> -> "docx"
      [] filepath = <<"u", "/", "d", ".", "p", "p", "t", "x">> -> "pptx"
      [] OTHER -> "plain"

\* C8: the loader is selected by the lower-cased extension, every other
\* extension (or none) selecting the plain loader, which never raises and
\* returns text chunks only, none when the file cannot be read.
C8_Dispatch ==
    \A c \in Calls :
        lpc[c] # "idle" =>
            /\ lkind[c] = ExpectedLoader(lpath[c])
            /\ lkind[c] = "plain" =>
                  /\ lpc[c] = "done"
                  /\ ImageChunks(results[c]) = << >>
                  /\ attempts[c] = << >>
                  /\ (lcond[c] = "bad" => results[c] = << >>)

\* C8 witness: one call was routed to the DOCX loader through an upper-case
\* extension, the other ran the plain loader on an unreadable .xyz file.
C8_Witness ==
    \E c, d \in Calls :
        /\ lpath[c] = <<"u", "/", "d", ".", "D", "O", "C", "X">>
        /\ lkind[c] = "docx" /\ lpc[c] = "done"
        /\ lpath[d] = <<"u", "/", "d", ".", "x", "y", "z">>
        /\ lcond[d] = "bad" /\ lpc[d] = "done" /\ results[d] = << >>

IsString(s) == \A k \in 1..Len(s) : s[k] \in STRING

\* C9: every chunk has type text or image and the base name of the call's
\* file as orig_filename; a text chunk has none of image_path, figure_no,
\* caption; an image chunk has all three, caption a string (not None) and
\* figure_no a positive integer.
C9_ChunkSchema ==
    \A c \in Calls : \A k \in 1..Len(results[c]) :
        LET meta == results[c][k].meta
        IN  /\ meta.type \in {"text", "image"}
            /\ meta.orig_filename = SubSeq(lpath[c], 3, Len(lpath[c]))
            /\ meta.type = "text" =>
                  DOMAIN meta = {"type", "orig_filename", "page"}
            /\ meta.type = "image" =>
                  /\ DOMAIN meta = {"type", "image_path", "orig_filename",
                                    "page", "figure_no", "caption"}
                  /\ meta.caption # None
                  /\ IsString(meta.caption[1])
                  /\ meta.figure_no \in Nat \ {0}

\* C9 witness: a call returned a text chunk and an image chunk whose caption
\* is the empty string.
C9_Witness ==
    \E c \in Calls :
        /\ lpc[c] = "done"
        /\ \E k \in 1..Len(results[c]) : results[c][k].meta.type = "text"
        /\ \E k \in 1..Len(results[c]) :
              /\ results[c][k].meta.type = "image"
              /\ results[c][k].meta.caption = Some(<< >>)

\* C10: in every loader the saved file's name is a function of the document,
\* the page or slide index and the image's sequence index alone: two runs of
\* the same document give the same image the same image_path, whatever other
\* images failed in either run.
C10_DeterministicNames ==
    \A c, d \in Calls :
        lpath[c] = lpath[d] =>
            \A i \in 1..Len(attempts[c]), j \in 1..Len(attempts[d]) :
                (/\ attempts[c][i].out = "ok" /\ attempts[d][j].out = "ok"
                 /\ attempts[c][i].img = attempts[d][j].img) =>
                    attempts[c][i].path = attempts[d][j].path

\* the paths under uploads_root a call has written a file to
Written(c) ==
    {attempts[c][k].path :
        k \in {j \in 1..Len(attempts[c]) : attempts[c][j].out # "fail_early"}}

\* C11: two extractions of different source files under one uploads root,
\* run in any interleaving, never write to the same asset file.
C11_NoSharedAssetFile ==
    \A c, d \in Calls :
        lpath[c] # lpath[d] => Written(c) \cap Written(d) = {}

\* the normalised text of slide p, truncated: the fallback caption
SlideCaption(p) == Slice(_norm_ws(SlideText(p)), 0, CaptionMax)

\* a < b for picture ids <<slide, shape>>: shape order across slides
ShapeBefore(a, b) == a[1] < b[1] \/ (a[1] = b[1] /\ a[2] < b[2])

\* the saved pictures of a PPTX call are numbered 1, 2, ... in shape order
PptxNumbered(c) ==
    LET ic == ImageChunks(results[c])
        ok == OkAttempts(c)
    IN  /\ Len(ic) = Len(ok)
        /\ \A k \in 1..Len(ic) : ic[k].meta.figure_no = k
        /\ \A j, k \in 1..Len(ok) : j < k => ShapeBefore(ok[j].img, ok[k].img)

\* C12 as stated: the caption of a saved PPTX picture is its alt text
\* verbatim when that is non-empty, else the normalised slide text truncated
\* to 300 characters; the pictures are numbered in shape order.
C12_CaptionVerbatim ==
    \A c \in Calls :
        lkind[c] = "pptx" =>
            /\ PptxNumbered(c)
            /\ \A k \in 1..Len(OkAttempts(c)) :
                  LET img == OkAttempts(c)[k].img
                  IN  ImageChunks(results[c])[k].meta.caption =
                          Some(IF AltText(img[2]) # << >>
                               THEN AltText(img[2])
                               ELSE SlideCaption(img[1]))

\* C12, amended: the caption of a saved PPTX picture is its alt text with the
\* whitespace normalised when that is non-empty after normalisation, else the
\* normalised slide text truncated to 300 characters; the pictures are
\* numbered in shape order.
C12_CaptionNormalised ==
    \A c \in Calls :
        lkind[c] = "pptx" =>
            /\ PptxNumbered(c)
            /\ \A k \in 1..Len(OkAttempts(c)) :
                  LET img == OkAttempts(c)[k].img
                  IN  ImageChunks(results[c])[k].meta.caption =
                          Some(IF _norm_ws(AltText(img[2])) # << >>
                               THEN _norm_ws(AltText(img[2]))
                               ELSE SlideCaption(img[1]))

\* C12 witness: a PPTX call saved two pictures of one slide, the first
\* without alt text and captioned by the slide text, the second captioned by
\* its alt text, whose whitespace the normalisation changed.
C12_Witness ==
    \E c \in Calls :
        /\ lpc[c] = "done" /\ lkind[c] = "pptx"
        /\ Len(OkAttempts(c)) = 2
        /\ OkAttempts(c)[1].img[1] = OkAttempts(c)[2].img[1]
        /\ AltText(OkAttempts(c)[1].img[2]) = << >>
        /\ ImageChunks(results[c])[1].meta.caption
              = Some(SlideCaption(OkAttempts(c)[1].img[1]))
        /\ SlideCaption(OkAttempts(c)[1].img[1]) # << >>
        /\ AltText(OkAttempts(c)[2].img[2]) # << >>
        /\ ImageChunks(results[c])[2].meta.caption
              = Some(_norm_ws(AltText(OkAttempts(c)[2].img[2])))
        /\ _norm_ws(AltText(OkAttempts(c)[2].img[2]))
              # AltText(OkAttempts(c)[2].img[2])

\* C15: in the PDF loader an image whose decoded raster is CMYK, with or
\* without an alpha channel, is converted to RGB before it is saved, and is
\* saved and gets its chunk whenever an RGB image would.
C15_CmykConverted ==
    \A c \in Calls :
        lkind[c] = "pdf" =>
            \A k \in 1..Len(attempts[c]) :
                LET a == attempts[c][k]
                    pix == Pixmap(a.img[1], a.img[2])
                IN  (pix.cs = "CMYK" /\ a.env = "ok") =>
                        /\ ToSave(pix).cs = "RGB"
                        /\ a.out = "ok"

=============================================================================
